---- MODULE Spec2Model ----
(***************************************************************************)
(* Model of iter8_analytics/api/analytics/experiment.py: the Experiment    *)
(* class that validates the iteration parameters (__init__), and then, in  *)
(* run(), fetches the metrics, widens the ratio max/min bounds, turns the  *)
(* reward samples and criteria masks into utilities, win probabilities and *)
(* top-k traffic splits, and assembles the assessment.                     *)
(*                                                                         *)
(* Numbers.  Optional values (None, NaN) are sequences of length at most   *)
(* one: << >> is the missing value, <<x>> the value x.  Fractions are kept *)
(* exact as numerator and denominator; a denominator of 0 is the NaN that  *)
(* pandas produces for 0/0.  Percentages are integers.  A utility u is     *)
(* held as 2*u + b, where b = 1 iff the bias 1e-10 was added to it: this   *)
(* has the order of u + b * 1e-10 for utilities that differ by more than   *)
(* the bias.                                                               *)
(***************************************************************************)
EXTENDS Integers, Sequences, FiniteSets, TLC

VARIABLES
    pc,                          \* "new" | "error" | "constructed" | "done" | "failed"
    eip,                         \* the ExperimentIterationParameters of the call
    AdvancedParameters,          \* the class attributes read at lines 307 and 360
    clock,                       \* what datetime.now() returns
    counter_metric_specs,        \* self.counter_metric_specs (ids)
    ratio_metric_specs,          \* self.ratio_metric_specs (ids)
    reward_metric_id,            \* self.reward_metric_id (optional)
    preferred_reward_direction,  \* self.preferred_reward_direction
    fetched,                     \* the external calls made so far
    new_ratio_metrics,           \* self.new_ratio_metrics
    ratio_max_mins,              \* self.ratio_max_mins
    rewards,                     \* self.rewards
    criteria_mask,               \* self.criteria_mask
    utilities,                   \* self.utilities
    win_probababilities,         \* self.win_probababilities
    mix_split,                   \* mix_split of create_top_k_recommendation, per k
    traffic_split,               \* self.traffic_split
    it8ar,                       \* the Iter8AssessmentAndRecommendation returned
    previous                     \* the result of the call before this one (optional)

vars == <<pc, eip, AdvancedParameters, clock, counter_metric_specs,
          ratio_metric_specs, reward_metric_id, preferred_reward_direction,
          fetched, new_ratio_metrics, ratio_max_mins, rewards, criteria_mask,
          utilities, win_probababilities, mix_split, traffic_split, it8ar,
          previous>>

----------------------------------------------------------------------------
(* Bounds of the model *)

\* Number of Monte Carlo draws S of an iteration is 1..NumSamples.
NumSamples == 2
\* Length of the criteria list of a request is 0..MaxCriteria.
MaxCriteria == 2
\* Observed ratio values are 0..MaxRatioValue.
MaxRatioValue == 2
\* datetime.now() is 0..MaxClock.
MaxClock == 2

----------------------------------------------------------------------------
(* Optional values and small helpers *)

None == << >>
Some(x) == <<x>>

\* The function f with its values computed once, rather than at every use.
Table(f) == f @@ << >>

RECURSIVE SumOver(_, _)
\* Sum of f[x] over the finite set S.
SumOver(f, S) ==
    IF S = {} THEN 0
    ELSE LET x == CHOOSE y \in S : TRUE IN f[x] + SumOver(f, S \ {x})

SetMin(S) == CHOOSE x \in S : \A y \in S : x <= y
SetMax(S) == CHOOSE x \in S : \A y \in S : x >= y

\* The elements of a sequence.
Range(s) == {s[i] : i \in DOMAIN s}

\* The position of x in the sequence s of distinct elements.
IndexOf(s, x) == CHOOSE i \in DOMAIN s : s[i] = x

----------------------------------------------------------------------------
(* Experiment.__init__: validation *)

ITER8_REQUEST_COUNT == "iter8_request_count"

RECURSIVE CheckCriteria(_, _)
\* The loop over eip.criteria (lines 64-85) from criterion i on: the detail
\* of the first HTTPException it raises, or "ok".
CheckCriteria(p, i) ==
    IF i > Len(p.criteria) THEN "ok"
    ELSE LET cri == p.criteria[i] IN
         IF cri.metric_id \in p.counter_metrics
         THEN IF cri.is_reward THEN "counter_metric_used_as_reward"
              ELSE IF cri.threshold = "relative"
                   THEN "counter_metric_with_relative_threshold"
                   ELSE CheckCriteria(p, i + 1)
         ELSE IF cri.metric_id \in DOMAIN p.ratio_metrics
              THEN LET rms == p.ratio_metrics[cri.metric_id] IN
                   IF rms.numerator \in p.counter_metrics
                      /\ rms.denominator \in p.counter_metrics
                   THEN CheckCriteria(p, i + 1)
                   ELSE "unknown_numerator_or_denominator"
              ELSE "unknown_metric_id"

\* Lines 88-90 with the count compared to 2 for 1.
RewardCountOkLoose(p) ==
    Cardinality({i \in DOMAIN p.criteria : p.criteria[i].is_reward}) <= 2

\* Lines 88-90: at most one criterion is a reward.
RewardCountOk(p) ==
    Cardinality({i \in DOMAIN p.criteria : p.criteria[i].is_reward}) <= 1

\* Lines 54-90 in order: the first error raised, or "ok".
Validate(p) ==
    IF ITER8_REQUEST_COUNT \notin p.counter_metrics
    THEN "request_count_missing"
    ELSE LET r == CheckCriteria(p, 1) IN
         IF r # "ok" THEN r
         ELSE IF RewardCountOk(p) THEN "ok" ELSE "more_than_one_reward"

\* self.ratio_metric_specs after the loop of lines 64-85.
RelevantRatioMetrics(p) ==
    {p.criteria[i].metric_id : i \in
        {j \in DOMAIN p.criteria :
            /\ p.criteria[j].metric_id \notin p.counter_metrics
            /\ p.criteria[j].metric_id \in DOMAIN p.ratio_metrics}}

\* self.counter_metric_specs after the loop of lines 64-85.
RelevantCounterMetrics(p) ==
    {ITER8_REQUEST_COUNT}
    \cup {p.criteria[i].metric_id : i \in
            {j \in DOMAIN p.criteria : p.criteria[j].metric_id \in p.counter_metrics}}
    \cup UNION {{p.ratio_metrics[m].numerator, p.ratio_metrics[m].denominator} :
                    m \in RelevantRatioMetrics(p)}

\* Lines 105-112: the metric of the first reward criterion, if any.
RewardMetricId(p) ==
    LET rw == {i \in DOMAIN p.criteria : p.criteria[i].is_reward} IN
    IF rw = {} THEN None ELSE Some(p.criteria[SetMin(rw)].metric_id)

\* Lines 106-111: lower only when the reward metric prefers lower.
PreferredRewardDirection(p) ==
    LET r == RewardMetricId(p) IN
    IF r # None /\ p.ratio_metrics[r[1]].preferred_direction = "lower"
    THEN "lower" ELSE "higher"

\* detailed_versions in insertion order (lines 95-102): the candidates in the
\* order of the request, then the baseline.
VersionOrder(p) == p.candidates \o <<p.baseline>>

Versions(p) == Range(VersionOrder(p))

----------------------------------------------------------------------------
(* populate_metric_values: the ratio max/min bounds *)

\* new_ratio_max_min of utils: per metric the minimum and maximum of the
\* listed values, both None for an empty list.
new_ratio_max_min(metric_id_to_list_of_values) ==
    Table([m \in DOMAIN metric_id_to_list_of_values |->
        LET vals == metric_id_to_list_of_values[m] IN
        IF vals = {} THEN [minimum |-> None, maximum |-> None]
        ELSE [minimum |-> Some(SetMin(vals)), maximum |-> Some(SetMax(vals))]])

\* Lines 228-234 skipped: the previous bounds contribute nothing.
SeedValuesDropped(last_state, m) == {}

\* Lines 228-234: the values the previous iteration's bounds contribute for
\* metric m: both bounds when last_state has ratio_max_mins and its minimum
\* is set, nothing otherwise.
SeedValues(last_state, m) ==
    IF last_state = None THEN {}
    ELSE LET mm == last_state[1].ratio_max_mins[m] IN
         IF mm.minimum # None
         THEN {mm.minimum[1]} \cup {mm.maximum[i] : i \in DOMAIN mm.maximum}
         ELSE {}

\* Lines 236-240: the ratio values newly observed for metric m, over all
\* versions.
ObservedValues(nrm, m) ==
    {nrm[v][m][1] : v \in {w \in DOMAIN nrm : nrm[w][m] # None}}

\* get_ratio_max_mins (lines 218-243).
get_ratio_max_mins(rms, last_state, nrm) ==
    new_ratio_max_min([m \in rms |-> SeedValues(last_state, m) \cup ObservedValues(nrm, m)])

----------------------------------------------------------------------------
(* create_utility_samples *)

\* DataFrame.max(axis = 1, skipna = False) at draw d: missing as soon as one
\* version's value is missing.
RowMax(df, d) ==
    IF \E v \in DOMAIN df : df[v][d] = None THEN None
    ELSE Some(SetMax({df[v][d][1] : v \in DOMAIN df}))

\* a - b on optional numbers: missing when either is.
Minus(a, b) == IF a = None \/ b = None THEN None ELSE Some(a[1] - b[1])

\* DataFrame.fillna(0): a new frame with the missing values replaced by 0.
fillna(df) ==
    [v \in DOMAIN df |->
        [d \in DOMAIN df[v] |-> IF df[v][d] = None THEN Some(0) ELSE df[v][d]]]

\* Lines 178-186.  The frame fillna(0) returns at line 186 is dropped:
\* self.effective_rewards is left as it was.
EffectiveRewards(rw, direction) ==
    LET eff == IF direction = "higher" THEN rw
               ELSE Table([v \in DOMAIN rw |->
                        Table([d \in DOMAIN rw[v] |-> Minus(RowMax(rw, d), rw[v][d])])])
        dropped == fillna(eff)
    IN  eff

\* Line 189 without the criteria mask.
ProductUnmasked(r, m) == r

\* One cell of effective_rewards * criteria_mask (line 189): NaN stays NaN.
Product(r, m) == IF r = None THEN None ELSE Some(IF m THEN r[1] ELSE 0)

\* The bias of line 191 added to the columns of every version.
BiasedAll(u, v, baseline) ==
    IF u = None THEN None ELSE Some(2 * u[1] + 1)

\* Line 191: the bias 1.0e-10 is added to the baseline's column only.
Biased(u, v, baseline) ==
    IF u = None THEN None
    ELSE Some(2 * u[1] + (IF v = baseline THEN 1 ELSE 0))

\* create_utility_samples (lines 177-191).
create_utility_samples(rw, cm, direction, baseline) ==
    LET eff == EffectiveRewards(rw, direction) IN
    Table([v \in DOMAIN rw |->
        Table([d \in DOMAIN rw[v] |-> Biased(Product(eff[v][d], cm[v][d]), v, baseline)])])

----------------------------------------------------------------------------
(* Ranking, win probabilities and the top-k split *)

\* DataFrame.rank(axis = 1, method = 'min', ascending = False) for version v
\* at draw d: one more than the number of strictly larger utilities at that
\* draw; a missing utility has no rank.
Rank(ut, v, d) ==
    IF ut[v][d] = None THEN None
    ELSE Some(1 + Cardinality({w \in DOMAIN ut :
                                  ut[w][d] # None /\ ut[w][d][1] > ut[v][d][1]}))

\* rank_df <= k (lines 250, 293): False for a missing rank.
LowRank(ut, v, d, k) ==
    LET r == Rank(ut, v, d) IN r # None /\ r[1] <= k

\* low_rank.sum(): per version the number of draws of low rank.
LowRankCount(ut, v, k) ==
    Cardinality({d \in DOMAIN ut[v] : LowRank(ut, v, d, k)})

\* low_rank.sum().sum()
LowRankTotal(ut, k) ==
    SumOver([v \in DOMAIN ut |-> LowRankCount(ut, v, k)], DOMAIN ut)

\* create_winner_assessments (lines 245-251): the fraction num/den per
\* version; den = 0 is the NaN of 0/0.
create_winner_assessments(ut) ==
    LET T == LowRankTotal(ut, 1) IN
    Table([v \in DOMAIN ut |-> [num |-> LowRankCount(ut, v, 1), den |-> T]])

\* Line 307 reading the value the request supplies.
ExplorationPercentageOfCall(p, ap) == p.advanced_parameters.exploration_traffic_percentage

\* Line 307: the exploration percentage is the class attribute.
ExplorationPercentage(p, ap) == ap.exploration_traffic_percentage

\* Lines 298-308 with mix_split * 100 of line 313: per version (in column
\* order) the numerator of 100 * (uniform * etf + fractional * (1 - etf)) over
\* the common denominator N * T, where etf = etp / 100, N is the number of
\* versions and T the number of low-rank cells.  T = 0 makes every entry NaN.
MixSplit(ut, order, k, etp) ==
    LET N == Len(order)
        T == LowRankTotal(ut, k)
    IN  [num |-> Table([i \in DOMAIN order |->
                     etp * T + LowRankCount(ut, order[i], k) * (100 - etp) * N]),
         den |-> N * T]

\* gen_round of utils: largest-remainder rounding of the weights num[i]/den to
\* integers that sum to target: the floors, plus one for the entries of largest
\* remainder, earlier entries first among equal remainders.
gen_round(num, den, target) ==
    LET floors == Table([i \in DOMAIN num |-> num[i] \div den])
        rem    == Table([i \in DOMAIN num |-> num[i] % den])
        left   == target - SumOver(floors, DOMAIN num)
        before(i) == Cardinality({j \in DOMAIN num :
                        rem[j] > rem[i] \/ (rem[j] = rem[i] /\ j < i)})
    IN  Table([i \in DOMAIN num |-> floors[i] + (IF before(i) < left THEN 1 ELSE 0)])

\* Lines 313-315: the rounded split, keyed by version; NaN weights give no
\* integers.
RoundedSplit(mix, order) ==
    IF mix.den = 0 THEN [v \in Range(order) |-> None]
    ELSE LET g == gen_round(mix.num, mix.den, 100) IN
         Table([v \in Range(order) |-> Some(g[IndexOf(order, v)])])

\* The keys of self.traffic_split after create_traffic_recommendations
\* (lines 256-258, 264, 269, 274).
SplitKeys(order) == {1, 2, Len(order)}

----------------------------------------------------------------------------
(* assemble_assessment_and_recommendations *)

\* np.argmax over win_probababilities in column order (line 358): the first
\* version of largest probability; position 0 when the probabilities are NaN.
CurrentWinner(wp, order) ==
    IF wp[order[1]].den = 0 THEN order[1]
    ELSE LET best == SetMax({wp[v].num : v \in Range(order)}) IN
         order[SetMin({i \in DOMAIN order : wp[order[i]].num = best})]

\* Line 360: the threshold is the class attribute (in percent).
MinPosterior(p, ap) == ap.min_posterior_probability_for_winner

\* Line 360 with >= for >.
ExceedsOrEquals(prob, threshold) ==
    prob.den # 0 /\ prob.num * 100 >= threshold * prob.den

\* Line 360: prob > threshold; False for NaN.
Exceeds(prob, threshold) ==
    prob.den # 0 /\ prob.num * 100 > threshold * prob.den

\* Lines 354-366.
WinnerAssessment(wp, order, threshold) ==
    LET current_winner == CurrentWinner(wp, order) IN
    IF Exceeds(wp[current_winner], threshold)
    THEN [winning_version_found |-> TRUE,
          current_winner |-> Some(current_winner),
          winning_probability |-> Some(wp[current_winner])]
    ELSE [winning_version_found |-> FALSE,
          current_winner |-> None,
          winning_probability |-> None]

\* Lines 372-384 with the time of the call also written into status.
AssembleStamped(now, p, wp, ts, wa, rmm) ==
    [timestamp |-> now,
     baseline_assessment |-> [id |-> p.baseline, win_probability |-> wp[p.baseline]],
     candidate_assessments |->
        [i \in DOMAIN p.candidates |->
            [id |-> p.candidates[i], win_probability |-> wp[p.candidates[i]]]],
     traffic_split_recommendation |->
        [progressive |-> ts[1], top_2 |-> ts[2], uniform |-> ts[Len(VersionOrder(p))]],
     winner_assessment |-> wa,
     status |-> <<now>>,
     last_state |-> [ratio_max_mins |-> rmm]]

\* Lines 325-351 and 372-384.  The request counts, criterion assessments and
\* aggregated metrics are copied from the detailed versions unchanged and are
\* left out.
Assemble(now, p, wp, ts, wa, rmm) ==
    [timestamp |-> now,
     baseline_assessment |-> [id |-> p.baseline, win_probability |-> wp[p.baseline]],
     candidate_assessments |->
        [i \in DOMAIN p.candidates |->
            [id |-> p.candidates[i], win_probability |-> wp[p.candidates[i]]]],
     traffic_split_recommendation |->
        [progressive |-> ts[1], top_2 |-> ts[2], uniform |-> ts[Len(VersionOrder(p))]],
     winner_assessment |-> wa,
     status |-> << >>,
     last_state |-> [ratio_max_mins |-> rmm]]

----------------------------------------------------------------------------
(* The calls *)

\* What the fields of the Experiment object hold before __init__ has set them.
Unset == << >>

\* Experiment.__init__ (lines 31-112): either raises the HTTPException of the
\* first rule violated, and nothing has been fetched or sampled, or leaves
\* the object constructed.
Construct ==
    /\ pc = "new"
    /\ IF Validate(eip) = "ok"
       THEN /\ pc' = "constructed"
            /\ counter_metric_specs' = RelevantCounterMetrics(eip)
            /\ ratio_metric_specs' = RelevantRatioMetrics(eip)
            /\ reward_metric_id' = RewardMetricId(eip)
            /\ preferred_reward_direction' = PreferredRewardDirection(eip)
       ELSE /\ pc' = "error"
            /\ UNCHANGED <<counter_metric_specs, ratio_metric_specs,
                           reward_metric_id, preferred_reward_direction>>
    /\ traffic_split' = Unset
    /\ UNCHANGED <<eip, AdvancedParameters, clock, fetched, new_ratio_metrics,
                   ratio_max_mins, rewards, criteria_mask, utilities,
                   win_probababilities, mix_split, it8ar, previous>>

\* get_ratio_metrics: a value, or none, per version and relevant ratio metric.
RatioFrames(vs, rms, values) == [vs -> [rms -> values]]

\* get_reward_sample of every version: S samples of the reward metric, or
\* the constant 1 when no reward metric is configured.
RewardFrames(vs, S, values) ==
    IF reward_metric_id = None THEN {[v \in vs |-> [d \in 1..S |-> Some(1)]]}
    ELSE [vs -> [1..S -> values]]

\* get_criteria_mask of every version: S booleans.
MaskFrames(vs, S, values) == [vs -> [1..S -> values]]

\* Experiment.run (lines 148-175) on the fetched ratio values nrm, the reward
\* samples rw and the criteria masks cm.  When every utility is missing the
\* weights handed to gen_round are NaN: the call then either raises (raises =
\* TRUE) or returns a split that holds no integers.
RunIteration(nrm, rw, cm, raises) ==
    LET order == VersionOrder(eip)
        etp   == ExplorationPercentage(eip, AdvancedParameters)
        wa    == WinnerAssessment(win_probababilities', order,
                                  MinPosterior(eip, AdvancedParameters))
    IN  /\ pc = "constructed"
        \* populate_metric_values (lines 115-146)
        /\ fetched' = fetched \cup {"get_counter_metrics", "get_ratio_metrics", "sampling"}
        /\ new_ratio_metrics' = nrm
        /\ ratio_max_mins' = get_ratio_max_mins(ratio_metric_specs, eip.last_state, nrm)
        \* the loop over the detailed versions (lines 161-170)
        /\ rewards' = rw
        /\ criteria_mask' = cm
        \* lines 172-174
        /\ utilities' = create_utility_samples(rw, cm, preferred_reward_direction,
                                               eip.baseline)
        /\ win_probababilities' = create_winner_assessments(utilities')
        /\ mix_split' = Table([k \in SplitKeys(order) |->
                                  MixSplit(utilities', order, k, etp)])
        \* lines 313-315 and 175
        /\ IF raises
           THEN /\ mix_split'[1].den = 0
                /\ pc' = "failed"
                /\ UNCHANGED <<traffic_split, it8ar>>
           ELSE /\ pc' = "done"
                /\ traffic_split' = Table([k \in SplitKeys(order) |->
                                              RoundedSplit(mix_split'[k], order)])
                /\ it8ar' = Some(Assemble(clock, eip, win_probababilities',
                                          traffic_split', wa, ratio_max_mins'))
        /\ UNCHANGED <<eip, AdvancedParameters, clock, counter_metric_specs,
                       ratio_metric_specs, reward_metric_id,
                       preferred_reward_direction, previous>>

\* run() returning, on inputs drawn from the given values.
Run(ratioValues, rewardValues, maskValues) ==
    /\ pc = "constructed"
    /\ previous = None
    /\ \E S \in 1..NumSamples :
       \E nrm \in RatioFrames(Versions(eip), ratio_metric_specs, ratioValues) :
       \E rw \in RewardFrames(Versions(eip), S, rewardValues) :
       \E cm \in MaskFrames(Versions(eip), S, maskValues) :
          RunIteration(nrm, rw, cm, FALSE)

\* run() raising in gen_round.
RunRaises(ratioValues, rewardValues, maskValues) ==
    /\ pc = "constructed"
    /\ previous = None
    /\ \E S \in 1..NumSamples :
       \E nrm \in RatioFrames(Versions(eip), ratio_metric_specs, ratioValues) :
       \E rw \in RewardFrames(Versions(eip), S, rewardValues) :
       \E cm \in MaskFrames(Versions(eip), S, maskValues) :
          RunIteration(nrm, rw, cm, TRUE)

\* The caller's next iteration: the same request with the returned last_state
\* replayed, handed to a new Experiment object.
Replay ==
    /\ pc = "done"
    /\ pc' = "new"
    /\ eip' = [eip EXCEPT !.last_state = Some(it8ar[1].last_state)]
    /\ fetched' = {}
    /\ counter_metric_specs' = Unset
    /\ ratio_metric_specs' = Unset
    /\ reward_metric_id' = Unset
    /\ preferred_reward_direction' = Unset
    /\ new_ratio_metrics' = Unset
    /\ ratio_max_mins' = Unset
    /\ rewards' = Unset
    /\ criteria_mask' = Unset
    /\ utilities' = Unset
    /\ win_probababilities' = Unset
    /\ mix_split' = Unset
    /\ traffic_split' = Unset
    /\ it8ar' = None
    /\ UNCHANGED <<AdvancedParameters, clock, previous>>

\* Time passes.
Tick ==
    /\ clock < MaxClock
    /\ clock' = clock + 1
    /\ UNCHANGED <<pc, eip, AdvancedParameters, counter_metric_specs,
                   ratio_metric_specs, reward_metric_id,
                   preferred_reward_direction, fetched, new_ratio_metrics,
                   ratio_max_mins, rewards, criteria_mask, utilities,
                   win_probababilities, mix_split, traffic_split, it8ar, previous>>

\* The caller recomputes: the same request handed to a new Experiment object.
\* The result of the first call is kept for comparison; new_ratio_metrics,
\* rewards and criteria_mask keep what the metric backend and the seeded
\* sampler returned.
CallAgain ==
    /\ pc = "done"
    /\ previous = None
    /\ pc' = "new"
    /\ previous' = it8ar
    /\ fetched' = {}
    /\ counter_metric_specs' = Unset
    /\ ratio_metric_specs' = Unset
    /\ reward_metric_id' = Unset
    /\ preferred_reward_direction' = Unset
    /\ ratio_max_mins' = Unset
    /\ utilities' = Unset
    /\ win_probababilities' = Unset
    /\ mix_split' = Unset
    /\ traffic_split' = Unset
    /\ it8ar' = None
    /\ UNCHANGED <<eip, AdvancedParameters, clock, new_ratio_metrics, rewards,
                   criteria_mask>>

\* run() of the second call: the metric backend returns the same values and
\* the seeded sampler the same draws as in the first call.
RunAgain ==
    /\ pc = "constructed"
    /\ previous # None
    /\ RunIteration(new_ratio_metrics, rewards, criteria_mask, FALSE)

----------------------------------------------------------------------------
(* Requests *)

RATIO == "r1"
COUNTER == "c1"
BASELINE == "baseline"

Request(cm, rm, cr, cands, adv) ==
    [counter_metrics |-> cm, ratio_metrics |-> rm, criteria |-> cr,
     baseline |-> BASELINE, candidates |-> cands,
     advanced_parameters |-> adv, last_state |-> None]

RatioSpec(num, den, dir) ==
    [m \in {RATIO} |-> [numerator |-> num, denominator |-> den, preferred_direction |-> dir]]

NoRatioSpecs == [m \in {} |-> 0]

Criterion(id, rew, thr) == [metric_id |-> id, is_reward |-> rew, threshold |-> thr]

\* The settings of a process, and the advanced parameters a request may
\* carry: exploration percentage and winner threshold, both in percent.
Settings(etp, mpp) ==
    [exploration_traffic_percentage |-> etp, min_posterior_probability_for_winner |-> mpp]

TwoSettings == {Settings(0, 50), Settings(5, 100)}

ThreeSettings == {Settings(0, 50), Settings(5, 50), Settings(10, 100)}

SeqsUpTo(S, n) == UNION {[1..k -> S] : k \in 0..n}

\* Requests of every shape, valid or not.
AnyRequests ==
    {Request(cm, rm, cr, <<"cand1">>, Settings(5, 50)) :
        cm \in SUBSET {ITER8_REQUEST_COUNT, COUNTER},
        rm \in {NoRatioSpecs} \cup
               {RatioSpec(n, d, "higher") :
                    n \in {ITER8_REQUEST_COUNT, COUNTER},
                    d \in {ITER8_REQUEST_COUNT, COUNTER}},
        cr \in SeqsUpTo({Criterion(id, rew, thr) :
                            id \in {COUNTER, RATIO, "unknown"},
                            rew \in BOOLEAN,
                            thr \in {"none", "absolute", "relative"}}, MaxCriteria)}

\* A request whose only criterion is an absolute threshold on a counter
\* metric: no reward metric.
CounterCriterion == <<Criterion(COUNTER, FALSE, "absolute")>>

\* A request whose only criterion is the reward, a ratio metric.
RewardCriterion == <<Criterion(RATIO, TRUE, "none")>>

\* Valid requests, one per criteria list, preferred direction of the ratio
\* metric, candidate list and supplied advanced parameters.
ValidRequests(criteriaLists, directions, candidateLists, supplied) ==
    {Request({ITER8_REQUEST_COUNT, COUNTER}, RatioSpec(COUNTER, ITER8_REQUEST_COUNT, dir),
             cr, cands, adv) :
        dir \in directions,
        cr \in criteriaLists,
        cands \in candidateLists,
        adv \in supplied}

\* Valid requests with a criterion on a ratio metric that is not the reward.
RatioRequests ==
    {Request({ITER8_REQUEST_COUNT, COUNTER}, RatioSpec(COUNTER, ITER8_REQUEST_COUNT, "higher"),
             <<Criterion(RATIO, FALSE, thr)>>, cands, Settings(5, 50)) :
        thr \in {"absolute", "relative"},
        cands \in {<< >>, <<"cand1">>}}

InitWith(requests, settings) ==
    /\ pc = "new"
    /\ eip \in requests
    /\ AdvancedParameters \in settings
    /\ clock = 0
    /\ counter_metric_specs = Unset
    /\ ratio_metric_specs = Unset
    /\ reward_metric_id = Unset
    /\ preferred_reward_direction = Unset
    /\ fetched = {}
    /\ new_ratio_metrics = Unset
    /\ ratio_max_mins = Unset
    /\ rewards = Unset
    /\ criteria_mask = Unset
    /\ utilities = Unset
    /\ win_probababilities = Unset
    /\ mix_split = Unset
    /\ traffic_split = Unset
    /\ it8ar = None
    /\ previous = None

Missing == {None}
Rewards01 == {Some(0), Some(1)}

\* One iteration on valid requests of one or two versions, with and without
\* a reward metric, over every reward frame (missing values included) and
\* every criteria mask.
Init ==
    InitWith(ValidRequests({CounterCriterion}, {"higher"},
                           {<< >>, <<"cand1">>}, {Settings(5, 50)})
             \cup ValidRequests({RewardCriterion}, {"higher", "lower"},
                                {<< >>, <<"cand1">>}, {Settings(5, 50)}),
             TwoSettings)
Next ==
    \/ Construct
    \/ Run({Some(1)}, Missing \cup Rewards01, BOOLEAN)
    \/ RunRaises({Some(1)}, Missing \cup Rewards01, BOOLEAN)
Spec == Init /\ [][Next]_vars

\* Construction and one iteration on requests of every shape.
InitValidation == InitWith(AnyRequests, {Settings(5, 50)})
NextValidation ==
    \/ Construct
    \/ Run({Some(1)}, {Some(1)}, {TRUE})
SpecValidation == InitValidation /\ [][NextValidation]_vars

\* Iterations in sequence, each replaying the last_state of the one before.
InitReplay == InitWith(RatioRequests, {Settings(5, 50)})
NextReplay ==
    \/ Construct
    \/ Run(Missing \cup {Some(x) : x \in 0..MaxRatioValue}, {Some(1)}, {TRUE})
    \/ Replay
SpecReplay == InitReplay /\ [][NextReplay]_vars

\* One iteration on requests without a reward metric that supply advanced
\* parameters, of two or three versions.
InitAdvanced ==
    InitWith(ValidRequests({CounterCriterion}, {"higher"},
                           {<<"cand1">>, <<"cand1", "cand2">>}, TwoSettings),
             ThreeSettings)
NextAdvanced ==
    \/ Construct
    \/ Run({Some(1)}, Rewards01, BOOLEAN)
SpecAdvanced == InitAdvanced /\ [][NextAdvanced]_vars

\* The same request computed twice, at any two times.
InitTwice ==
    InitWith(ValidRequests({CounterCriterion, RewardCriterion}, {"lower"},
                           {<<"cand1">>}, {Settings(5, 50)}),
             TwoSettings)
NextTwice ==
    \/ Construct
    \/ Tick
    \/ Run({Some(1)}, {Some(0)} \cup Missing, BOOLEAN)
    \/ CallAgain
    \/ RunAgain
SpecTwice == InitTwice /\ [][NextTwice]_vars

----------------------------------------------------------------------------
(* Properties *)

\* run() has been called and has returned or raised.
RunActed == pc \in {"done", "failed"}

\* The recommendation ts gives every version an integer, and they sum to 100.
SumsTo100(ts) ==
    /\ \A v \in DOMAIN ts : ts[v] # None
    /\ SumOver([v \in DOMAIN ts |-> ts[v][1]], DOMAIN ts) = 100

\* C1: after run(), each of the recommendations progressive (k = 1), top_2
\* (k = 2) and uniform (k = N) exists and gives the versions integer
\* percentages that sum to exactly 100, for every utility matrix.
C1_SplitsSumTo100 ==
    RunActed =>
        /\ traffic_split # Unset
        /\ \A k \in SplitKeys(VersionOrder(eip)) : SumsTo100(traffic_split[k])

\* Some utility is present.
SomeUtilityPresent ==
    \E v \in DOMAIN utilities : \E d \in DOMAIN utilities[v] : utilities[v][d] # None

\* The part of C1 the code does satisfy: when at least one utility is present,
\* run() returns and every recommendation sums to 100.
SplitsSumTo100WhenPresent ==
    (RunActed /\ SomeUtilityPresent) =>
        /\ pc = "done"
        /\ \A k \in SplitKeys(VersionOrder(eip)) : SumsTo100(traffic_split[k])

\* A request that violates a validation rule of __init__: the request count
\* metric is missing, a criterion names an unknown metric, a criterion on a
\* counter metric is a reward or has a relative threshold, a criterion's
\* ratio metric has a numerator or denominator that is no counter metric, or
\* more than one criterion is a reward.
CriterionViolates(p, cri) ==
    \/ /\ cri.metric_id \notin p.counter_metrics
       /\ cri.metric_id \notin DOMAIN p.ratio_metrics
    \/ /\ cri.metric_id \in p.counter_metrics
       /\ (cri.is_reward \/ cri.threshold = "relative")
    \/ /\ cri.metric_id \notin p.counter_metrics
       /\ cri.metric_id \in DOMAIN p.ratio_metrics
       /\ {p.ratio_metrics[cri.metric_id].numerator,
           p.ratio_metrics[cri.metric_id].denominator} \ p.counter_metrics # {}

RewardCount(p) == Cardinality({i \in DOMAIN p.criteria : p.criteria[i].is_reward})

Violates(p) ==
    \/ ITER8_REQUEST_COUNT \notin p.counter_metrics
    \/ \E i \in DOMAIN p.criteria : CriterionViolates(p, p.criteria[i])
    \/ RewardCount(p) > 1

\* C2: a request that violates a validation rule ends in a configuration
\* error, and nothing has been fetched or sampled when the error is reported.
C2_ErrorsBeforeFetch ==
    (Violates(eip) /\ pc # "new") => (pc = "error" /\ fetched = {})

\* A request rejected for its two reward criteria alone: every other rule
\* was checked and passed.
C2_Witness ==
    /\ pc = "error"
    /\ fetched = {}
    /\ RewardCount(eip) > 1
    /\ ITER8_REQUEST_COUNT \in eip.counter_metrics
    /\ \A i \in DOMAIN eip.criteria : ~CriterionViolates(eip, eip.criteria[i])

\* C3: in an iteration that replays the last_state of the one before, for
\* every ratio metric whose bounds were set, the returned minimum is at most
\* the previous minimum and the returned maximum at least the previous
\* maximum, whatever was newly observed.
C3_BoundsNeverShrink ==
    (pc = "done" /\ eip.last_state # None) =>
        \A m \in DOMAIN eip.last_state[1].ratio_max_mins :
            LET old == eip.last_state[1].ratio_max_mins[m]
                new == it8ar[1].last_state.ratio_max_mins[m]
            IN  old.minimum # None =>
                    /\ new.minimum # None /\ new.maximum # None
                    /\ new.minimum[1] <= old.minimum[1]
                    /\ new.maximum[1] >= old.maximum[1]

\* A replayed iteration whose new observations all lie strictly inside the
\* previous bounds.
C3_Witness ==
    /\ pc = "done"
    /\ eip.last_state # None
    /\ \E m \in DOMAIN eip.last_state[1].ratio_max_mins :
          LET old == eip.last_state[1].ratio_max_mins[m] IN
          /\ old.minimum # None
          /\ ObservedValues(new_ratio_metrics, m) # {}
          /\ \A x \in ObservedValues(new_ratio_metrics, m) :
                old.minimum[1] < x /\ x < old.maximum[1]

\* C4: with at least one sample, the win probabilities of all versions sum
\* to 1.
C4_WinProbabilitiesSumTo1 ==
    RunActed =>
        /\ win_probababilities[eip.baseline].den > 0
        /\ SumOver([v \in DOMAIN win_probababilities |-> win_probababilities[v].num],
                   DOMAIN win_probababilities)
             = win_probababilities[eip.baseline].den

\* The part of C4 the code does satisfy: the win probabilities sum to 1 when
\* at least one utility is present.
WinProbabilitiesSumTo1WhenPresent ==
    (RunActed /\ SomeUtilityPresent) =>
        /\ win_probababilities[eip.baseline].den > 0
        /\ SumOver([v \in DOMAIN win_probababilities |-> win_probababilities[v].num],
                   DOMAIN win_probababilities)
             = win_probababilities[eip.baseline].den

\* The scenario of C5: a baseline and one candidate, no reward metric, the
\* candidate fails the criteria on every draw and the baseline passes on
\* every draw.
C5_Scenario ==
    /\ pc = "done"
    /\ eip.candidates = <<"cand1">>
    /\ reward_metric_id = None
    /\ \A d \in DOMAIN criteria_mask[eip.baseline] :
          criteria_mask[eip.baseline][d] /\ ~criteria_mask["cand1"][d]

\* In the scenario the candidate's utility is zero and the baseline's is
\* larger on every draw.
C5_BaselineFirst ==
    \A d \in DOMAIN utilities[eip.baseline] :
        /\ utilities["cand1"][d] = Some(0)
        /\ utilities[eip.baseline][d] # None
        /\ utilities[eip.baseline][d][1] > 0

WithoutTimestamp(r) == [r EXCEPT !.timestamp = 0]

BlendUses(etp) ==
    LET order == VersionOrder(eip)
        N == Len(order)
    IN  \A i \in DOMAIN order :
            LET wp == win_probababilities[order[i]] IN
            /\ mix_split[1].den = N * wp.den
            /\ mix_split[1].num[i] = etp * wp.den + wp.num * (100 - etp) * N

\* A winner is reported iff some version's win probability is above mpp
\* percent.
WinnerUses(mpp) ==
    it8ar[1].winner_assessment.winning_version_found
        <=> \E v \in DOMAIN win_probababilities :
                /\ win_probababilities[v].den # 0
                /\ win_probababilities[v].num * 100 > mpp * win_probababilities[v].den

\* C7 as claimed: the exploration percentage of the blend and the threshold
\* of the winner are the values the call's iteration parameters supply.
C7_UsesSuppliedParameters ==
    pc = "done" =>
        /\ BlendUses(eip.advanced_parameters.exploration_traffic_percentage)
        /\ WinnerUses(eip.advanced_parameters.min_posterior_probability_for_winner)

\* C7 as amended: the exploration percentage of the blend and the threshold
\* of the winner are the attributes of the class AdvancedParameters, the
\* same for every call of the process, whatever the iteration parameters
\* supply.
C7_UsesClassAttributes ==
    pc = "done" =>
        /\ BlendUses(AdvancedParameters.exploration_traffic_percentage)
        /\ WinnerUses(AdvancedParameters.min_posterior_probability_for_winner)

\* A call of three versions that supplies other values than the class holds.
C7_Witness ==
    /\ pc = "done"
    /\ Len(eip.candidates) = 2
    /\ eip.advanced_parameters.exploration_traffic_percentage
         # AdvancedParameters.exploration_traffic_percentage
    /\ eip.advanced_parameters.min_posterior_probability_for_winner
         # AdvancedParameters.min_posterior_probability_for_winner

\* Version v has the highest win probability, and it is above the threshold.
HighestAndAbove(v) ==
    LET wp == win_probababilities
        threshold == AdvancedParameters.min_posterior_probability_for_winner
    IN  /\ wp[v].den # 0
        /\ \A w \in DOMAIN wp : wp[w].num <= wp[v].num
        /\ wp[v].num * 100 > threshold * wp[v].den

\* C8: in every assembled result winning_version_found is true iff the
\* highest win probability is strictly above the threshold; then
\* current_winner is a version of highest win probability and
\* winning_probability is its win probability; otherwise no winner is
\* reported.
C8_WinnerIffAboveThreshold ==
    pc = "done" =>
        LET wa == it8ar[1].winner_assessment IN
        /\ wa.winning_version_found <=> \E v \in DOMAIN win_probababilities : HighestAndAbove(v)
        /\ wa.winning_version_found =>
              /\ wa.current_winner # None
              /\ HighestAndAbove(wa.current_winner[1])
              /\ wa.winning_probability = Some(win_probababilities[wa.current_winner[1]])
        /\ ~wa.winning_version_found =>
              /\ wa.current_winner = None
              /\ wa.winning_probability = None

\* The highest win probability equals the threshold, and no winner is
\* reported.
C8_Witness ==
    /\ pc = "done"
    /\ ~it8ar[1].winner_assessment.winning_version_found
    /\ \E v \in DOMAIN win_probababilities :
          /\ win_probababilities[v].den # 0
          /\ \A w \in DOMAIN win_probababilities :
                win_probababilities[w].num <= win_probababilities[v].num
          /\ win_probababilities[v].num * 100
               = AdvancedParameters.min_posterior_probability_for_winner
                   * win_probababilities[v].den

\* C9: missing reward values are treated as 0 before the lower-is-better
\* transform, so no utility is missing: the utilities are those of the
\* rewards with 0 for every missing value.
C9_MissingRewardsAreZero ==
    RunActed =>
        /\ \A v \in DOMAIN utilities : \A d \in DOMAIN utilities[v] :
              utilities[v][d] # None
        /\ utilities = create_utility_samples(fillna(rewards), criteria_mask,
                                              preferred_reward_direction, eip.baseline)

\* All utilities at draw d are present and are zero before the bias.
AllZeroAt(d) ==
    \A v \in DOMAIN utilities : utilities[v][d] # None /\ utilities[v][d][1] \div 2 = 0

\* C10: the bias is added to the baseline's utility on every draw and to no
\* other version's; on a draw where the utilities of all versions are zero
\* before the bias the baseline alone is largest; and when that is so on all
\* draws the baseline's win probability is 1 and every candidate's is 0.
C10_BiasOnBaselineOnly ==
    RunActed =>
        LET draws == DOMAIN utilities[eip.baseline]
            wp == win_probababilities
        IN  /\ \A v \in DOMAIN utilities : \A d \in draws :
                  utilities[v][d] # None =>
                      utilities[v][d][1] % 2 = (IF v = eip.baseline THEN 1 ELSE 0)
            /\ \A d \in draws : AllZeroAt(d) =>
                  \A v \in DOMAIN utilities \ {eip.baseline} :
                      utilities[eip.baseline][d][1] > utilities[v][d][1]
            /\ (\A d \in draws : AllZeroAt(d)) =>
                  /\ wp[eip.baseline].den > 0
                  /\ wp[eip.baseline].num = wp[eip.baseline].den
                  /\ \A v \in DOMAIN wp \ {eip.baseline} : wp[v].num = 0

\* A reward metric is configured, there is a candidate, and every utility is
\* zero before the bias on every draw.
C10_Witness ==
    /\ pc = "done"
    /\ reward_metric_id # None
    /\ eip.candidates # << >>
    /\ Len(utilities[eip.baseline]) = NumSamples
    /\ \A d \in DOMAIN utilities[eip.baseline] : AllZeroAt(d)

====
